---- MODULE Spec2Model ----
(***************************************************************************)
(* Model of the async generator demos:                                     *)
(*   src/src/integrated_async_demo.py  fetch_url, sequential_http_gen,     *)
(*                                     concurrent_http_gen, batch_http_gen *)
(*   src/src/async generator.py        slow_task, sequential_gen,          *)
(*                                     concurrent_gen                      *)
(* One behaviour is one stream: a generator object, its consumer, the      *)
(* operations it launches and the asyncio event loop that runs them.  One  *)
(* action is one step of one coroutine between two suspension points,      *)
(* which the cooperative scheduler runs atomically.                        *)
(***************************************************************************)
EXTENDS Integers, Sequences, FiniteSets, Bags, TLC

(* ---------------- bounds ---------------- *)
MaxN == 3          \* longest input list
MaxBatch == 2      \* largest batch_size tried

(* ---------------- values ---------------- *)
Urls == {"u1", "u2"}
None == "None"
StatusCodes == {200, 404}
\* A success status is a 2xx status code.
IsSuccessStatus(s) == s >= 200 /\ s <= 299

HttpModes == {"sequential_http_gen", "concurrent_http_gen", "batch_http_gen"}
SimpleModes == {"sequential_gen", "concurrent_gen"}
SeqModes == {"sequential_http_gen", "sequential_gen"}
ConcModes == {"concurrent_http_gen", "concurrent_gen"}
Modes == HttpModes \cup SimpleModes

\* Input lists: every list of URLs (duplicates allowed) up to MaxN long.
\* The code never looks inside a URL, so lists that differ only by renaming
\* the URLs behave alike: one list per renaming class, the one starting "u1".
UrlLists == {l \in UNION {[1..n -> Urls] : n \in 0..MaxN} : l = <<>> \/ l[1] = "u1"}
\* range(n) of sequential_gen / concurrent_gen
RangeLists == {[i \in 1..n |-> i - 1] : n \in 0..MaxN}
\* batch_size arguments: 0 and a negative value are possible arguments too.
BatchSizes == (-1)..MaxBatch

VARIABLES
  mode,        \* which generator function was called
  urls,        \* its list argument (range(n) for the simple generators)
  batch_size,  \* batch_http_gen's batch_size (0 elsewhere: not an argument)
  pc,          \* generator: created / await / yield / done / raised / closed
  exc,         \* exception the latest pull raised to its caller, "none" if none
  consumer,    \* "pulling" or "abandoned"
  st,          \* per item: new / sched / sleep / get / done / raised
  result,      \* per item: how its operation settled (a return or a raise)
  done,        \* as_completed's queue of settled tasks, oldest first
  remaining,   \* iterations left in the current as_completed loop
  next,        \* sequential: next index; batch: offset i of the outer loop
  yielded,     \* values the consumer received, in order
  yieldedIdx,  \* history: item index of each yielded value
  settleOrder, \* history: item indexes in the order their operations settled
  got          \* history: per item, what client.get produced

vars == <<mode, urls, batch_size, pc, exc, consumer, st, result, done,
          remaining, next, yielded, yieldedIdx, settleOrder, got>>

N == Len(urls)
Items == 1..N

Range(s) == {s[k] : k \in 1..Len(s)}

(* ---------------- the operations ---------------- *)

\* What `await client.get(url, timeout=10.0)` can produce.
Responses == {[kind |-> "response", status |-> s, text_len |-> IF s = 200 THEN 2 ELSE 0] :
                s \in StatusCodes}
TransportError == [kind |-> "error", status |-> 0, text_len |-> 0]
Cancelled == [kind |-> "cancelled", status |-> 0, text_len |-> 0]
\* asyncio.sleep's timer fired.
TimerDue == [kind |-> "timer", status |-> 0, text_len |-> 0]
GetEvents == Responses \cup {TransportError}
\* Before client.get has produced anything.
NoEvent == [kind |-> "none", status |-> 0, text_len |-> 0]
\* Before the operation has settled.
NoOutcome == [kind |-> "none", value |-> None]

\* Synthetic delay of item i (1-based), in units of 0.05 s.
DelayOf(m, i) ==
  CASE m \in {"sequential_http_gen", "concurrent_http_gen"} -> 2 * ((i - 1) % 3)
    [] m = "batch_http_gen" -> 1
    [] OTHER -> 2

\* fetch_url up to its first suspension: `if delay: await asyncio.sleep(delay)`
\* then `await client.get`.  slow_task always sleeps.
StartState(m, i) ==
  IF m \in SimpleModes THEN "sleep"
  ELSE IF DelayOf(m, i) # 0 THEN "sleep" ELSE "get"

\* fetch_url resumed at `await asyncio.sleep(delay)`, which is outside the try.
fetch_url_sleep(ev) ==
  IF ev = Cancelled THEN [kind |-> "raise", value |-> "CancelledError"]
  ELSE [kind |-> "continue", value |-> "get"]

\* Mutant of fetch_url_get: no except clause, the transport error escapes.
fetch_url_get_uncaught(url, ev) ==
  CASE ev.kind = "response" ->
         [kind |-> "return",
          value |-> [url |-> url, status |-> ev.status, length |-> ev.text_len,
                     success |-> TRUE]]
    [] ev.kind = "error" -> [kind |-> "raise", value |-> "Exception"]
    [] OTHER -> [kind |-> "raise", value |-> "CancelledError"]

\* Mutant of fetch_url_get: the failure dict is built like the success dict,
\* without the error text.
fetch_url_get_noerror(url, ev) ==
  CASE ev.kind = "response" ->
         [kind |-> "return",
          value |-> [url |-> url, status |-> ev.status, length |-> ev.text_len,
                     success |-> TRUE]]
    [] ev.kind = "error" ->
         [kind |-> "return",
          value |-> [url |-> url, status |-> None, length |-> 0,
                     success |-> FALSE]]
    [] OTHER -> [kind |-> "raise", value |-> "CancelledError"]

\* fetch_url resumed at `await client.get(...)` inside try / except Exception.
\* CancelledError derives from BaseException and is not caught.
fetch_url_get(url, ev) ==
  CASE ev.kind = "response" ->
         [kind |-> "return",
          value |-> [url |-> url, status |-> ev.status, length |-> ev.text_len,
                     success |-> TRUE]]
    [] ev.kind = "error" ->
         [kind |-> "return",
          value |-> [url |-> url, status |-> None, length |-> 0,
                     success |-> FALSE, error |-> "str(e)"]]
    [] OTHER -> [kind |-> "raise", value |-> "CancelledError"]

\* slow_task resumed at `await asyncio.sleep(0.1)`.
slow_task(i, ev) ==
  IF ev = Cancelled THEN [kind |-> "raise", value |-> "CancelledError"]
  ELSE [kind |-> "return", value |-> <<"Task ", i, " done">>]

(* ---------------- state functions ---------------- *)
Launched == {i \in Items : st[i] # "new"}
InFlight == {i \in Items : st[i] \in {"sched", "sleep", "get"}}
Settled == {i \in Items : st[i] \in {"done", "raised"}}

TypeOK ==
  /\ mode \in Modes
  /\ pc \in {"created", "await", "yield", "done", "raised", "closed"}
  /\ exc \in {"none", "ValueError", "CancelledError", "Exception", "StopAsyncIteration"}
  /\ consumer \in {"pulling", "abandoned"}
  /\ st \in [Items -> {"new", "sched", "sleep", "get", "done", "raised"}]
  /\ remaining \in 0..N
  /\ next \in 0..(N + MaxBatch + 1)
  /\ Len(yielded) = Len(yieldedIdx)

Init ==
  /\ mode \in Modes
  /\ urls \in IF mode \in HttpModes THEN UrlLists ELSE RangeLists
  /\ batch_size \in IF mode = "batch_http_gen" THEN BatchSizes ELSE {0}
  /\ pc = "created"
  /\ exc = "none"
  /\ consumer = "pulling"
  /\ st = [i \in Items |-> "new"]
  /\ result = [i \in Items |-> NoOutcome]
  /\ got = [i \in Items |-> NoEvent]
  /\ done = <<>>
  /\ remaining = 0
  /\ next = 0
  /\ yielded = <<>>
  /\ yieldedIdx = <<>>
  /\ settleOrder = <<>>

(* ---------------- the generators ---------------- *)

\* Mutant of RangeHas: the range stops one offset early.
RangeHas_short(i, step) ==
  IF step = 0 THEN "error"
  ELSE IF step > 0 /\ i < N - 1 THEN "yes" ELSE "no"

\* range(0, len(urls), batch_size): "error" for step 0 (ValueError), else
\* whether offset i is still inside the range.
RangeHas(i, step) ==
  IF step = 0 THEN "error"
  ELSE IF step > 0 /\ i < N THEN "yes" ELSE "no"

\* Mutant of NextOffset: the outer loop advances by one item, not by a batch.
NextOffset_one(i) == i + 1

\* The offset after i in range(0, len(urls), batch_size).
NextOffset(i) == i + batch_size

\* Mutant of BatchItems: the slice stops one item early.
BatchItems_short(i) == {k \in Items : k > i /\ k < i + batch_size}

\* Mutant of BatchItems: the slice takes one item too many.
BatchItems_wide(i) == {k \in Items : k > i /\ k <= i + batch_size + 1}

\* Mutant of BatchItems: the slice starts one item early, at the last item of
\* the previous batch.
BatchItems_overlap(i) == {k \in Items : k >= i /\ k <= i + batch_size}

\* urls[i : i + batch_size] as item indexes (i is a 0-based offset).
BatchItems(i) == {k \in Items : k > i /\ k <= i + batch_size}

\* Mutant of AsCompletedTodo: only the first coroutine is scheduled up front.
AsCompletedTodo_lazy(coros) == {i \in coros : \A j \in coros : i <= j}

\* Tasks that as_completed(tasks) schedules for a list of coroutines.
AsCompletedTodo(coros) == coros

\* Mutant of QueueGet: the settled task is read but left in the queue.
QueueGet_peek(q) == [item |-> Head(q), rest |-> q]

\* Mutant of QueueGet: the newest settled task is taken first.
QueueGet_lifo(q) == [item |-> q[Len(q)], rest |-> SubSeq(q, 1, Len(q) - 1)]

\* `await done.get()` on a non-empty queue: the oldest settled task.
QueueGet(q) == [item |-> Head(q), rest |-> Tail(q)]

\* The generator receives settled task i from as_completed: f.result() either
\* returns the task's value, which is yielded, or re-raises its exception.
Deliver(i, q) ==
  /\ done' = q
  /\ IF st[i] = "raised"
     THEN /\ pc' = "raised"
          /\ exc' = result[i].value
          /\ UNCHANGED <<yielded, yieldedIdx, remaining>>
     ELSE /\ pc' = "yield"
          /\ yielded' = Append(yielded, result[i].value)
          /\ yieldedIdx' = Append(yieldedIdx, i)
          /\ remaining' = remaining - 1
          /\ exc' = exc

\* Mutant of StartAsCompleted: the generator waits in done.get() even when
\* there is no task to wait for.
StartAsCompleted_wait(coros, offset) ==
  /\ st' = [i \in Items |-> IF i \in coros THEN "sched" ELSE st[i]]
  /\ remaining' = Cardinality(coros)
  /\ next' = offset
  /\ pc' = "await"
  /\ UNCHANGED <<exc, done, yielded, yieldedIdx>>

\* `for task in asyncio.as_completed(tasks)` over a fresh list of coroutines:
\* all are scheduled, then the generator waits for the first to settle.
StartAsCompleted(coros, offset) ==
  /\ st' = [i \in Items |-> IF i \in AsCompletedTodo(coros) THEN "sched" ELSE st[i]]
  /\ remaining' = Cardinality(AsCompletedTodo(coros))
  /\ next' = offset
  /\ pc' = IF AsCompletedTodo(coros) = {} THEN "done" ELSE "await"
  /\ UNCHANGED <<exc, done, yielded, yieldedIdx>>

\* Inside an as_completed loop with iterations left: take the oldest settled
\* task without suspending, or suspend in done.get().
NextCompleted ==
  IF done # <<>>
  THEN Deliver(QueueGet(done).item, QueueGet(done).rest) /\ UNCHANGED <<st, next>>
  ELSE pc' = "await" /\ UNCHANGED <<exc, st, next, done, remaining, yielded, yieldedIdx>>

\* batch_http_gen's outer loop arriving at offset i.
StartBatch(i) ==
  CASE RangeHas(i, batch_size) = "error" ->
         /\ pc' = "raised"
         /\ exc' = "ValueError"
         /\ UNCHANGED <<st, remaining, next, done, yielded, yieldedIdx>>
    [] RangeHas(i, batch_size) = "no" ->
         /\ pc' = "done"
         /\ UNCHANGED <<exc, st, remaining, next, done, yielded, yieldedIdx>>
    [] OTHER -> StartAsCompleted(BatchItems(i), i)

\* Mutant of PullSequential: the loop walks the list from its end.
PullSequential_reversed ==
  /\ mode \in SeqModes
  /\ consumer = "pulling"
  /\ pc \in {"created", "yield"}
  /\ IF next >= N
     THEN /\ pc' = "done"
          /\ UNCHANGED <<st, next>>
     ELSE /\ st' = [st EXCEPT ![N - next] = StartState(mode, N - next)]
          /\ next' = next + 1
          /\ pc' = "await"
  /\ UNCHANGED <<mode, urls, batch_size, consumer, result, settleOrder, got,
                 exc, done, remaining, yielded, yieldedIdx>>

\* The consumer asks sequential_http_gen / sequential_gen for the next value:
\* the loop takes the next item and awaits its operation inline.
PullSequential ==
  /\ mode \in SeqModes
  /\ consumer = "pulling"
  /\ pc \in {"created", "yield"}
  /\ IF next >= N
     THEN /\ pc' = "done"
          /\ UNCHANGED <<st, next>>
     ELSE /\ st' = [st EXCEPT ![next + 1] = StartState(mode, next + 1)]
          /\ next' = next + 1
          /\ pc' = "await"
  /\ UNCHANGED <<mode, urls, batch_size, consumer, result, settleOrder, got,
                 exc, done, remaining, yielded, yieldedIdx>>

\* The consumer asks concurrent_http_gen / concurrent_gen for the next value.
PullConcurrent ==
  /\ mode \in ConcModes
  /\ consumer = "pulling"
  /\ pc \in {"created", "yield"}
  /\ CASE pc = "created" -> StartAsCompleted(Items, 0)
       [] pc = "yield" /\ remaining > 0 -> NextCompleted
       [] OTHER -> pc' = "done" /\ UNCHANGED <<exc, st, next, done, remaining,
                                                yielded, yieldedIdx>>
  /\ UNCHANGED <<mode, urls, batch_size, consumer, result, settleOrder, got>>

\* The consumer asks batch_http_gen for the next value.
PullBatch ==
  /\ mode = "batch_http_gen"
  /\ consumer = "pulling"
  /\ pc \in {"created", "yield"}
  /\ CASE pc = "created" -> StartBatch(0)
       [] pc = "yield" /\ remaining > 0 -> NextCompleted
       [] OTHER -> StartBatch(NextOffset(next))
  /\ UNCHANGED <<mode, urls, batch_size, consumer, result, settleOrder, got>>

\* The generator, suspended in done.get(), is woken by a settled task.
Wake ==
  /\ mode \notin SeqModes
  /\ pc = "await"
  /\ done # <<>>
  /\ Deliver(QueueGet(done).item, QueueGet(done).rest)
  /\ UNCHANGED <<mode, urls, batch_size, consumer, st, result, next,
                 settleOrder, got>>

(* ---------------- the event loop ---------------- *)

\* Item i's operation settles with outcome out (a return or a raise).  A task
\* (concurrent, batch) runs its done callback, which queues it for the
\* generator; an inline operation (sequential) resumes the generator itself.
Settle(i, out) ==
  /\ st' = [st EXCEPT ![i] = IF out.kind = "return" THEN "done" ELSE "raised"]
  /\ result' = [result EXCEPT ![i] = out]
  /\ settleOrder' = Append(settleOrder, i)
  /\ IF mode \in SeqModes
     THEN /\ done' = done
          /\ IF out.kind = "return"
             THEN /\ pc' = "yield"
                  /\ yielded' = Append(yielded, out.value)
                  /\ yieldedIdx' = Append(yieldedIdx, i)
                  /\ exc' = exc
             ELSE /\ pc' = "raised"
                  /\ exc' = out.value
                  /\ UNCHANGED <<yielded, yieldedIdx>>
     ELSE /\ done' = Append(done, i)
          /\ UNCHANGED <<pc, exc, yielded, yieldedIdx>>

\* Every task created by as_completed runs its first step in the loop
\* iteration after its creation, before any timer or I/O callback.
NoneScheduled == \A j \in Items : st[j] # "sched"

\* First step of task i.
TaskStart(i) ==
  /\ st[i] = "sched"
  /\ st' = [st EXCEPT ![i] = StartState(mode, i)]
  /\ UNCHANGED <<mode, urls, batch_size, pc, exc, consumer, result, done,
                 remaining, next, yielded, yieldedIdx, settleOrder, got>>

\* Mutant of TimerDueFirst: timers fire in any order.
TimerDueFirst_any(i) == TRUE

\* The operations asleep together were started in the same loop iteration, so
\* the timer of item i is due first when no sleeper has a shorter delay.
TimerDueFirst(i) ==
  \A j \in Items : st[j] = "sleep" => DelayOf(mode, i) <= DelayOf(mode, j)

\* The sleep of item i ends; timers fire in order of delay.
TimerFire(i) ==
  /\ st[i] = "sleep"
  /\ NoneScheduled
  /\ TimerDueFirst(i)
  /\ IF mode \in SimpleModes
     THEN Settle(i, slow_task(urls[i], TimerDue)) /\ UNCHANGED <<remaining, next>>
     ELSE /\ st' = [st EXCEPT ![i] = fetch_url_sleep(TimerDue).value]
          /\ UNCHANGED <<pc, exc, result, done, remaining, next, yielded,
                         yieldedIdx, settleOrder>>
  /\ UNCHANGED <<mode, urls, batch_size, consumer, got>>

\* client.get of item i ends with a response or a transport error.
Response(i, ev) ==
  /\ st[i] = "get"
  /\ NoneScheduled
  /\ got' = [got EXCEPT ![i] = ev]
  /\ Settle(i, fetch_url_get(urls[i], ev))
  /\ UNCHANGED <<mode, urls, batch_size, consumer, remaining, next>>

\* CancelledError thrown into item i's coroutine where it is suspended (a
\* task cancelled before its first step raises at once).
CancelOutcome(i) ==
  CASE st[i] = "sleep" /\ mode \in SimpleModes -> slow_task(urls[i], Cancelled)
    [] st[i] = "sleep" -> fetch_url_sleep(Cancelled)
    [] st[i] = "get" -> fetch_url_get(urls[i], Cancelled)
    [] OTHER -> [kind |-> "raise", value |-> "CancelledError"]

\* The consumer's task is cancelled (a deadline around the iteration) while
\* the generator is suspended in an await: the error is thrown in at the
\* innermost await, which is the inline operation (sequential) or done.get().
CancelConsumer ==
  /\ consumer = "pulling"
  /\ pc = "await"
  /\ IF mode \in SeqModes
     THEN Settle(next, CancelOutcome(next))
     ELSE /\ pc' = "raised"
          /\ exc' = "CancelledError"
          /\ UNCHANGED <<st, result, done, yielded, yieldedIdx, settleOrder>>
  /\ UNCHANGED <<mode, urls, batch_size, consumer, remaining, next, got>>

\* The consumer leaves its `async for` early.
Abandon ==
  /\ consumer = "pulling"
  /\ pc \in {"created", "yield"}
  /\ consumer' = "abandoned"
  /\ UNCHANGED <<mode, urls, batch_size, pc, exc, st, result, done, remaining,
                 next, yielded, yieldedIdx, settleOrder, got>>

\* The abandoned generator is finalised (aclose): GeneratorExit is raised at
\* its yield; the generator bodies have no try/finally, so nothing else runs.
Close ==
  /\ consumer = "abandoned"
  /\ pc \in {"created", "yield"}
  /\ pc' = "closed"
  /\ UNCHANGED <<mode, urls, batch_size, exc, consumer, st, result, done,
                 remaining, next, yielded, yieldedIdx, settleOrder, got>>

\* The caller pulls again from the generator it abandoned, after the close:
\* __anext__ of a closed async generator raises StopAsyncIteration.
PullClosed ==
  /\ pc = "closed"
  /\ exc = "none"
  /\ exc' = "StopAsyncIteration"
  /\ UNCHANGED <<mode, urls, batch_size, pc, consumer, st, result, done,
                 remaining, next, yielded, yieldedIdx, settleOrder, got>>

\* asyncio.run() ends: the loop cancels a task that is still running after
\* the generator has finished.
CancelTask(i) ==
  /\ mode \notin SeqModes
  /\ pc \in {"done", "raised", "closed"}
  /\ i \in InFlight
  /\ Settle(i, CancelOutcome(i))
  /\ UNCHANGED <<mode, urls, batch_size, consumer, remaining, next, got>>

Next ==
  \/ PullSequential
  \/ PullConcurrent
  \/ PullBatch
  \/ Wake
  \/ \E i \in Items : TaskStart(i)
  \/ \E i \in Items : TimerFire(i)
  \/ \E i \in Items : \E ev \in GetEvents : Response(i, ev)
  \/ CancelConsumer
  \/ Abandon
  \/ Close
  \/ PullClosed
  \/ \E i \in Items : CancelTask(i)

Spec == Init /\ [][Next]_vars

\* A stream whose consumer keeps pulling (the `async for` loops of
\* demonstrate_patterns and main run to the end) and whose operations all
\* settle: no abandonment and no cancellation, and the event loop runs every
\* callback that is ready.
NextLive ==
  \/ PullSequential
  \/ PullConcurrent
  \/ PullBatch
  \/ Wake
  \/ \E i \in Items : TaskStart(i)
  \/ \E i \in Items : TimerFire(i)
  \/ \E i \in Items : \E ev \in GetEvents : Response(i, ev)

Fairness ==
  /\ WF_vars(PullSequential)
  /\ WF_vars(PullConcurrent)
  /\ WF_vars(PullBatch)
  /\ WF_vars(Wake)
  /\ WF_vars(\E i \in Items : TaskStart(i))
  /\ WF_vars(\E i \in Items : TimerFire(i))
  /\ WF_vars(\E i \in Items : \E ev \in GetEvents : Response(i, ev))

LiveSpec == Init /\ [][NextLive]_vars /\ Fairness

(* ======================= claims ======================= *)

Count(seq, x) == Cardinality({p \in 1..Len(seq) : seq[p] = x})
\* Identifier carried by a yielded value.
IdentOf(v) == IF mode \in HttpModes THEN v.url ELSE v[2]
ValidLimit == mode = "batch_http_gen" => batch_size >= 1

\* C1: a fully consumed stream (limit >= 1 when bounded) has yielded exactly
\* N outcomes, one for every input item and none twice, and every outcome
\* carries the identifier of its item.
C1_ExactlyOnce ==
  (pc = "done" /\ ValidLimit) =>
     /\ Len(yielded) = N
     /\ \A i \in Items : Count(yieldedIdx, i) = 1
     /\ \A p \in 1..Len(yielded) : IdentOf(yielded[p]) = urls[yieldedIdx[p]]
     /\ \A u \in Range(urls) :
          Cardinality({p \in 1..Len(yielded) : IdentOf(yielded[p]) = u}) = Count(urls, u)

\* A batch stream over three items with a duplicated URL, fully consumed out
\* of submission order.
C1_Witness ==
  /\ pc = "done"
  /\ mode = "batch_http_gen"
  /\ batch_size = 2
  /\ N = 3
  /\ urls[1] = urls[3]
  /\ yieldedIdx = <<2, 1, 3>>

\* C2: outcomes are yielded in completion order: if i settled before j and j
\* has been yielded, then i was yielded before j.
C2_CompletionOrder ==
  \A a, b \in 1..Len(settleOrder) :
    (a < b /\ settleOrder[b] \in Range(yieldedIdx)) =>
       \E p, q \in 1..Len(yieldedIdx) :
          /\ p < q
          /\ yieldedIdx[p] = settleOrder[a]
          /\ yieldedIdx[q] = settleOrder[b]

\* A concurrent stream that yielded a later-submitted item first.
C2_Witness ==
  /\ mode \in ConcModes
  /\ Len(yieldedIdx) >= 2
  /\ yieldedIdx[1] > yieldedIdx[2]
  /\ settleOrder[1] = yieldedIdx[1]

\* C3: a bounded stream never has more than batch_size operations launched
\* and not yet settled.
C3_ConcurrencyBound ==
  (mode = "batch_http_gen" /\ batch_size >= 1) =>
     Cardinality(InFlight) <= batch_size

\* The limit is reached while items are still waiting to be launched.
C3_Witness ==
  /\ mode = "batch_http_gen"
  /\ batch_size = 2
  /\ Cardinality(InFlight) = 2
  /\ \A i \in InFlight : st[i] = "get"
  /\ Launched # Items

\* C4 as stated (sliding window): whenever the bounded stream waits for a
\* completion while unstarted items remain, every completion it has received
\* has been replaced by a new launch, so the launched and not yet yielded
\* operations number exactly the limit.
C4_SlidingWindow ==
  (mode = "batch_http_gen" /\ batch_size >= 1 /\ pc = "await" /\ Launched # Items) =>
     Cardinality(Launched) - Len(yielded) = batch_size

\* C4 amended (batch barrier): the bounded stream launches only when every
\* item launched so far has settled and been yielded, and it then launches
\* the next batch_size not-yet-started items (or all that remain) at once;
\* the first launch is of the first batch_size items.
C4_BatchBarrier ==
  [][(mode = "batch_http_gen" /\ Launched' # Launched) =>
        /\ InFlight = {}
        /\ Launched = Range(yieldedIdx)
        /\ Launched = 1..Cardinality(Launched)
        /\ Launched' \ Launched =
             {k \in Items : /\ k > Cardinality(Launched)
                            /\ k <= Cardinality(Launched) + batch_size}]_vars

\* The second batch has been launched, after both items of the first were
\* yielded; between the first and second yield one slot stayed empty.
C4_Witness ==
  /\ mode = "batch_http_gen"
  /\ batch_size = 2
  /\ N = 3
  /\ Len(yielded) = 2
  /\ InFlight = {3}

\* C5: in unbounded mode every operation is launched by the first pull: once
\* the generator has run at all, and so whenever an outcome has been yielded,
\* all N operations have been launched.
C5_AllLaunchedFirst ==
  (mode \in ConcModes /\ (yielded # <<>> \/ pc \in {"await", "yield", "done", "raised"})) =>
     Launched = Items

\* Nothing yielded yet and all N >= 3 operations are running.
C5_Witness ==
  /\ mode \in ConcModes
  /\ N >= 3
  /\ yielded = <<>>
  /\ Cardinality(InFlight) = N
  /\ \A i \in Items : st[i] \in {"sleep", "get"}

\* C6: failure isolation.  A transport error of item k is never raised to the
\* consumer; every yielded outcome is the one of its own item (a Failure with
\* the item's url and an error text if its request failed, else a Success
\* with its own response's status); and a fully consumed stream with a
\* failed item has still yielded every item.
C6_FailureIsolation ==
  mode \in HttpModes =>
    /\ exc # "Exception"
    /\ \A p \in 1..Len(yielded) :
         LET i == yieldedIdx[p]
             v == yielded[p]
         IN /\ v.url = urls[i]
            /\ got[i] = TransportError =>
                 (v.success = FALSE /\ "error" \in DOMAIN v)
            /\ got[i] \in Responses =>
                 (v.success = TRUE /\ v.status = got[i].status)
    /\ (pc = "done" /\ ValidLimit /\ \E k \in Items : got[k] = TransportError) =>
         (Range(yieldedIdx) = Items /\ Len(yielded) = N)

\* A fully consumed concurrent stream in which item 1 failed first and the
\* other two succeeded afterwards.
C6_Witness ==
  /\ mode = "concurrent_http_gen"
  /\ pc = "done"
  /\ N = 3
  /\ got[1] = TransportError
  /\ yieldedIdx[1] = 1
  /\ yielded[1].success = FALSE
  /\ yielded[2].success = TRUE
  /\ yielded[3].success = TRUE

\* C7 as stated: fetch_url never raises, whatever arrives while it is
\* suspended in its delay or in its request.
C7_NeverThrows ==
  mode \in HttpModes => \A i \in Items : st[i] # "raised"

\* C8 as stated: a response with a non-success status is captured as a
\* Failure, and a Success outcome has a success status.
C8_NonSuccessIsFailure ==
  mode \in HttpModes =>
    \A i \in Items :
      (st[i] = "done" /\ got[i] \in Responses) =>
         (result[i].value.success = IsSuccessStatus(got[i].status))

\* C9 as stated: once the abandoned stream has been closed, no operation is
\* left in flight.
C9_CancelOnAbandon ==
  pc = "closed" => InFlight = {}

\* C10 as stated: a bounded stream with a limit below 1 over a non-empty list
\* never completes normally; the only way it ends is a configuration error.
C10_FailFast ==
  (mode = "batch_http_gen" /\ batch_size < 1 /\ N > 0) =>
     /\ pc # "done"
     /\ pc = "raised" => exc = "ValueError"

\* C11: for an empty input list (and a valid limit) a stream never suspends,
\* never yields, never raises and never has an operation launched: its first
\* pull ends it.
C11_EmptyInput ==
  /\ (N = 0 /\ ValidLimit) =>
        /\ pc \in {"created", "done", "closed"}
        /\ yielded = <<>>
        /\ exc \in {"none", "StopAsyncIteration"}
        /\ Launched = {}
        /\ settleOrder = <<>>
  /\ (N = 0 /\ ValidLimit /\ consumer = "pulling" /\ pc = "created") =>
        ENABLED (Next /\ pc' = "done")

\* An empty batch stream that ended on its first pull.
C11_Witness ==
  /\ N = 0
  /\ mode = "batch_http_gen"
  /\ batch_size = 2
  /\ pc = "done"
  /\ consumer = "pulling"

C13_ClosedPullRaises ==
  (pc = "closed" /\ exc # "none") => exc = "CancellationError"

\* C15: every item moves along Pending -> Launched -> Completed -> Yielded.
\* In one step an item's operation never moves backwards (so no item is
\* launched a second time), a Pending item is at most launched, an operation
\* settles only if it was launched before, and a newly yielded item is one
\* whose operation has returned and that was never yielded before.
StRank(s) ==
  CASE s = "new" -> 0
    [] s = "sched" -> 1
    [] s = "sleep" -> 2
    [] s = "get" -> 3
    [] OTHER -> 4

C15_Lifecycle ==
  [][/\ \A i \in Items :
          /\ StRank(st'[i]) >= StRank(st[i])
          /\ (st[i] \in {"done", "raised"}) => st'[i] = st[i]
          /\ st[i] = "new" => st'[i] \in {"new", "sched", "sleep", "get"}
          /\ (st'[i] \in {"done", "raised"} /\ st[i] # st'[i]) =>
                st[i] \in {"sched", "sleep", "get"}
     /\ Len(yieldedIdx') >= Len(yieldedIdx)
     /\ SubSeq(yieldedIdx', 1, Len(yieldedIdx)) = yieldedIdx
     /\ Len(yieldedIdx') <= Len(yieldedIdx) + 1
     /\ Len(yieldedIdx') > Len(yieldedIdx) =>
          LET i == yieldedIdx'[Len(yieldedIdx')]
          IN /\ st'[i] = "done"
             /\ st[i] \in {"sleep", "get", "done"}
             /\ yielded'[Len(yielded')] = result'[i].value
             /\ i \notin Range(yieldedIdx)]_vars

\* One item in each stage: item 1 yielded, item 2 completed and waiting in
\* the queue, item 3 launched, in a concurrent stream.
C15_Witness ==
  /\ mode = "concurrent_http_gen"
  /\ N = 3
  /\ yieldedIdx = <<1>>
  /\ st[2] = "done"
  /\ done = <<2>>
  /\ st[3] = "get"

\* Batch of item i in batch_http_gen (0 for the first batch).
BatchOf(i) == (i - 1) \div batch_size

\* C16: in batch_http_gen an item of a later batch is launched only when
\* every item of every earlier batch has been yielded, so that a slot freed
\* inside a batch stays empty while the batch drains, and outcomes are
\* yielded in batch order.
C16_BatchOrder ==
  (mode = "batch_http_gen" /\ batch_size >= 1) =>
     /\ \A i, j \in Items :
          (BatchOf(i) < BatchOf(j) /\ j \in Launched) => i \in Range(yieldedIdx)
     /\ \A p, q \in 1..Len(yieldedIdx) :
          p < q => BatchOf(yieldedIdx[p]) <= BatchOf(yieldedIdx[q])
     /\ \A i \in Launched : \A j \in Items : BatchOf(j) = BatchOf(i) => j \in Launched

\* A freed slot that is not refilled: the first batch has one item yielded
\* and one still in its request, and item 3 has not been launched.
C16_Witness ==
  /\ mode = "batch_http_gen"
  /\ batch_size = 2
  /\ N = 3
  /\ yieldedIdx = <<2>>
  /\ st[1] = "get"
  /\ st[3] = "new"
  /\ pc = "await"

\* C17: the sequential generators have at most one operation in flight, have
\* launched exactly the items up to the one after the last yielded, yield in
\* submission order, and launch an item only in a pull of the consumer made
\* after the previous item's outcome was yielded.
C17_Sequential ==
  /\ [](mode \in SeqModes =>
          /\ Cardinality(InFlight) <= 1
          /\ \A p \in 1..Len(yieldedIdx) : yieldedIdx[p] = p
          /\ Launched = 1..Cardinality(Launched)
          /\ Cardinality(Launched) <= Len(yielded) + 1
          /\ InFlight # {} => (pc = "await" /\ InFlight = {Len(yielded) + 1}))
  /\ [][(mode \in SeqModes /\ Launched' # Launched) =>
          /\ consumer = "pulling"
          /\ pc \in {"created", "yield"}
          /\ pc' = "await"
          /\ Launched' = Launched \cup {Len(yielded) + 1}
          /\ Len(yielded) = Cardinality(Launched)
          /\ yielded' = yielded]_vars

\* The third item is in its request after the first two were yielded in order.
C17_Witness ==
  /\ mode = "sequential_http_gen"
  /\ N = 3
  /\ yieldedIdx = <<1, 2>>
  /\ st[3] = "get"

\* C18: if the consumer keeps pulling and every launched operation settles,
\* each generator (batch_size >= 1) eventually has yielded all N outcomes and
\* signalled the end of the sequence.
C18_Termination ==
  ValidLimit => <>(pc = "done" /\ Len(yielded) = N)

\* A three-batch stream (batch_size 1 over three items) that ran to its end.
C18_Witness ==
  /\ mode = "batch_http_gen"
  /\ batch_size = 1
  /\ N = 3
  /\ pc = "done"
  /\ Len(yielded) = 3

\* What the executor's outcome for item i is, given what its request got
\* (its sleep for the simple generators): a function of the item alone.
ExpectedOutcome(i) ==
  IF mode \in SimpleModes THEN <<"Task ", urls[i], " done">>
  ELSE IF got[i].kind = "response"
       THEN [url |-> urls[i], status |-> got[i].status,
             length |-> got[i].text_len, success |-> TRUE]
       ELSE [url |-> urls[i], status |-> None, length |-> 0,
             success |-> FALSE, error |-> "str(e)"]

\* C19: the multiset of outcomes of a fully consumed stream is the multiset
\* of the executor's outcomes for the items, whichever generator produced
\* it; so for one list and one executor the sequential, concurrent and batch
\* streams yield the same multiset.  For two URLs that both get a response
\* (the input of the generator tests) that is two outcomes, all successful.
C19_SameOutcomes ==
  (pc = "done" /\ ValidLimit) =>
     /\ \A i \in Items :
          Cardinality({p \in 1..Len(yielded) : yielded[p] = ExpectedOutcome(i)})
            = Cardinality({j \in Items : ExpectedOutcome(j) = ExpectedOutcome(i)})
     /\ Len(yielded) = N
     /\ (mode \in HttpModes /\ N = 2 /\ \A i \in Items : got[i] \in Responses) =>
          \A p \in 1..2 : yielded[p].success = TRUE

\* The input of test_sequential_generator: two URLs, both answered.
C19_Witness ==
  /\ mode = "sequential_http_gen"
  /\ pc = "done"
  /\ N = 2
  /\ urls[1] # urls[2]
  /\ \A i \in Items : got[i] \in Responses
  /\ Len(yielded) = 2

\* C20: every value fetch_url has returned is well formed: it carries the
\* url of its item; a success has the response's status code and no error
\* field; a failure has status None, length 0 and an error field.
C20_WellFormed ==
  mode \in HttpModes =>
    \A i \in Items :
      result[i].kind = "return" =>
        LET r == result[i].value
        IN /\ r.url = urls[i]
           /\ r.success \in BOOLEAN
           /\ r.success =>
                /\ r.status \in StatusCodes
                /\ r.status = got[i].status
                /\ DOMAIN r = {"url", "status", "length", "success"}
           /\ ~r.success =>
                /\ r.status = None
                /\ r.length = 0
                /\ DOMAIN r = {"url", "status", "length", "success", "error"}

\* One stream holding a returned success and a returned failure.
C20_Witness ==
  /\ mode \in HttpModes
  /\ \E i, j \in Items :
       /\ result[i].kind = "return" /\ result[i].value.success
       /\ result[j].kind = "return" /\ ~result[j].value.success
====
